---------------------------- MODULE Spec2Model ----------------------------
(***************************************************************************)
(* Model of FLIR_images.py: the FLIR_image class (construction, raw image  *)
(* extraction, save_data) and the two module functions raw_to_temperature  *)
(* and temperature_to_raw.                                                 *)
(*                                                                         *)
(* Floating-point values are modelled as exact extended reals: IEEE        *)
(* specials (nan, signed infinities, signed zeros), exact rationals, and   *)
(* the two closed forms the Planck formulas produce, (c/e)*ln(n/d) and     *)
(* (c/e)/ln(n/d).  The sums, squares and roots of the statistics that     *)
(* have no closed form are a finite real of unknown value ("real").  Any   *)
(* other operation the algebra has no closed form for has no CASE arm, so  *)
(* TLC stops with an error if a run ever needs it.                         *)
(***************************************************************************)
EXTENDS Integers, Sequences, FiniteSets, TLC

---------------------------------------------------------------------------
(* Extended reals: what a numpy float64 holds.                             *)

RECURSIVE GCD(_, _)
GCD(a, b) == IF b = 0 THEN a ELSE GCD(b, a % b)

Abs(i) == IF i < 0 THEN -i ELSE i

Sign(i) == IF i < 0 THEN -1 ELSE IF i > 0 THEN 1 ELSE 0

Val(k, n, d, c, e) == [k |-> k, n |-> n, d |-> d, c |-> c, e |-> e]

NaN == Val("nan", 0, 1, 0, 1)

Inf(s) == Val("inf", s, 1, 0, 1)

Zero(s) == Val("zero", s, 1, 0, 1)

\* The rational n/d (d # 0) in lowest terms; an exact zero is +0.0.
Q(n, d) ==
    IF n = 0 THEN Zero(1)
    ELSE LET g == GCD(Abs(n), Abs(d))
         IN  Val("q", Sign(d) * (n \div g), Abs(d) \div g, 0, 1)

FromInt(i) == Q(i, 1)

\* (c/e) * ln(n/d), with n/d > 0 and n/d # 1 and c # 0.
CLn(c, e, n, d) ==
    LET g == GCD(Abs(c), Abs(e))
    IN  Val("cln", n, d, Sign(e) * (c \div g), Abs(e) \div g)

\* (c/e) / ln(n/d), with n/d > 0 and n/d # 1 and c # 0.
RLn(c, e, n, d) ==
    LET g == GCD(Abs(c), Abs(e))
    IN  Val("rln", n, d, Sign(e) * (c \div g), Abs(e) \div g)

\* A finite real the algebra has no closed form for.
Real == Val("real", 0, 1, 0, 1)

IsNaN(x) == x.k = "nan"

IsFinite(x) == x.k \in {"zero", "q", "cln", "rln", "real"}

Closed(x) == x.k \in {"q", "cln", "rln"}

\* The sign of a value: -1, 0 or 1 (0 for a zero of either sign and for nan).
Sgn(x) ==
    CASE x.k = "nan"  -> 0
      [] x.k = "zero" -> 0
      [] x.k = "inf"  -> x.n
      [] x.k = "q"    -> Sign(x.n)
      [] x.k \in {"cln", "rln"} -> Sign(x.c) * Sign(x.n - x.d)

\* The sign bit, which a zero keeps: 1 or -1.
SignBit(x) == IF x.k = "zero" THEN x.n ELSE Sgn(x)

Neg(x) ==
    CASE x.k = "nan"  -> x
      [] x.k \in {"zero", "inf", "q"} -> [x EXCEPT !.n = -x.n]
      [] x.k \in {"cln", "rln"} -> [x EXCEPT !.c = -x.c]
      [] x.k = "real" -> x

\* x + y as IEEE 754 adds, with exact finite sums.
Add(x, y) ==
    CASE x.k = "nan" \/ y.k = "nan" -> NaN
      [] x.k = "inf" /\ y.k = "inf" -> IF x.n = y.n THEN x ELSE NaN
      [] x.k = "inf" /\ y.k # "inf" /\ y.k # "nan" -> x
      [] y.k = "inf" /\ x.k # "inf" /\ x.k # "nan" -> y
      [] x.k = "zero" /\ y.k = "zero" ->
            IF x.n = -1 /\ y.n = -1 THEN Zero(-1) ELSE Zero(1)
      [] x.k = "zero" /\ IsFinite(y) /\ y.k # "zero" -> y
      [] y.k = "zero" /\ IsFinite(x) /\ x.k # "zero" -> x
      [] x.k = "q" /\ y.k = "q" ->
            LET g == GCD(x.d, y.d)
            IN  Q(x.n * (y.d \div g) + y.n * (x.d \div g), (x.d \div g) * y.d)
      [] x.k = y.k /\ x.k \in {"cln", "rln"} /\ x.n = y.n /\ x.d = y.d ->
            LET s == Q(x.c * y.e + y.c * x.e, x.e * y.e)
            IN  IF s.k = "zero" THEN s
                ELSE Val(x.k, x.n, x.d, s.n, s.d)
      [] Closed(x) /\ Closed(y) /\ (x.k # y.k \/ x.k # "q")
            /\ ~(x.k = y.k /\ x.n = y.n /\ x.d = y.d) -> Real
      [] x.k = "real" /\ Closed(y) -> Real
      [] y.k = "real" /\ (Closed(x) \/ x.k = "real") -> Real

Sub(x, y) == Add(x, Neg(y))

\* x * y as IEEE 754 multiplies.
Mul(x, y) ==
    CASE x.k = "nan" \/ y.k = "nan" -> NaN
      [] x.k = "inf" /\ y.k = "zero" -> NaN
      [] x.k = "zero" /\ y.k = "inf" -> NaN
      [] x.k = "inf" /\ y.k \notin {"zero", "nan"} -> Inf(x.n * SignBit(y))
      [] y.k = "inf" /\ x.k \notin {"zero", "nan", "inf"} -> Inf(y.n * SignBit(x))
      [] x.k = "zero" /\ y.k \notin {"inf", "nan"} -> Zero(x.n * SignBit(y))
      [] y.k = "zero" /\ x.k \notin {"inf", "nan", "zero"} -> Zero(y.n * SignBit(x))
      [] x.k = "q" /\ y.k = "q" ->
            LET g == GCD(Abs(x.n), y.d)
                h == GCD(Abs(y.n), x.d)
            IN  Q((x.n \div g) * (y.n \div h), (x.d \div h) * (y.d \div g))

\* 1 / y for a finite nonzero y.
Recip(y) ==
    CASE y.k = "q"   -> Q(y.d, y.n)
      [] y.k = "cln" -> RLn(y.e, y.c, y.n, y.d)
      [] y.k = "rln" -> CLn(y.e, y.c, y.n, y.d)

\* x / y as numpy's true division of floats divides: a nonzero value over a
\* zero is an infinity, 0/0 and inf/inf are nan, nothing is raised.
Div(x, y) ==
    CASE x.k = "nan" \/ y.k = "nan" -> NaN
      [] x.k = "inf" /\ y.k = "inf" -> NaN
      [] x.k = "zero" /\ y.k = "zero" -> NaN
      [] x.k = "inf" /\ y.k \notin {"inf", "nan"} -> Inf(x.n * SignBit(y))
      [] y.k = "inf" /\ x.k \notin {"inf", "nan"} -> Zero(SignBit(x) * y.n)
      [] y.k = "zero" /\ x.k \notin {"zero", "nan", "inf"} ->
            Inf(SignBit(x) * y.n)
      [] x.k = "zero" /\ y.k \notin {"zero", "nan", "inf"} ->
            Zero(x.n * SignBit(y))
      [] x.k = "q" /\ y.k = "q" -> Mul(x, Recip(y))
      [] x.k = "q" /\ y.k = "cln" ->
            LET r == Mul(x, Q(y.e, y.c)) IN RLn(r.n, r.d, y.n, y.d)
      [] x.k = "q" /\ y.k = "rln" ->
            LET r == Mul(x, Q(y.e, y.c)) IN CLn(r.n, r.d, y.n, y.d)
      [] x.k \in {"cln", "rln"} /\ y.k = "q" ->
            LET r == Mul(Q(x.c, x.e), Recip(y)) IN Val(x.k, x.n, x.d, r.n, r.d)
      [] x.k = "real" /\ y.k = "q" -> Real

\* numpy.log: nan below zero, -inf at zero, 0 at one.
Log(x) ==
    CASE x.k = "nan"  -> NaN
      [] x.k = "inf"  -> IF x.n = 1 THEN x ELSE NaN
      [] x.k = "zero" -> Inf(-1)
      [] x.k = "q" /\ x.n < 0 -> NaN
      [] x.k = "q" /\ x.n = x.d -> Zero(1)
      [] x.k = "q" /\ x.n > 0 /\ x.n # x.d -> CLn(1, 1, x.n, x.d)

RECURSIVE IPow(_, _)
IPow(b, p) == IF p = 0 THEN 1 ELSE b * IPow(b, p - 1)

\* numpy.exp: exp(c * ln(a)) is a^c, closed for an integer c.
Exp(x) ==
    CASE x.k = "nan"  -> NaN
      [] x.k = "inf"  -> IF x.n = 1 THEN x ELSE Zero(1)
      [] x.k = "zero" -> FromInt(1)
      [] x.k = "cln" /\ x.e = 1 /\ x.c > 0 -> Q(IPow(x.n, x.c), IPow(x.d, x.c))
      [] x.k = "cln" /\ x.e = 1 /\ x.c < 0 -> Q(IPow(x.d, -x.c), IPow(x.n, -x.c))

\* abs(x)**2
Square(x) ==
    CASE x.k = "nan"  -> NaN
      [] x.k = "inf"  -> Inf(1)
      [] x.k = "zero" -> Zero(1)
      [] x.k = "q"    -> Q(x.n * x.n, x.d * x.d)
      [] x.k \in {"cln", "rln", "real"} -> Real

RECURSIVE ISqrt(_, _)
\* The largest r >= lo with r*r <= n.
ISqrt(n, lo) == IF (lo + 1) * (lo + 1) > n THEN lo ELSE ISqrt(n, lo + 1)

\* numpy.sqrt
Sqrt(x) ==
    CASE x.k = "nan"  -> NaN
      [] x.k = "inf"  -> IF x.n = 1 THEN x ELSE NaN
      [] x.k = "zero" -> x
      [] x.k = "q" /\ x.n < 0 -> NaN
      [] x.k = "q" /\ x.n > 0 ->
            LET rn == ISqrt(x.n, 0)
                rd == ISqrt(x.d, 0)
            IN  IF rn * rn = x.n /\ rd * rd = x.d THEN Q(rn, rd) ELSE Real
      [] x.k = "real" -> Real

\* x < y for values that are not nan.  Two closed forms in ln compare when
\* they have the same coefficient: 1/ln(a) falls as a grows on each side
\* of 1, ln(a) rises.
Less(x, y) ==
    CASE x.k = "q" /\ y.k = "q" -> x.n * y.d < y.n * x.d
      [] x.k \in {"inf", "zero"} \/ y.k \in {"inf", "zero"} ->
            IF x.k = "inf" /\ y.k = "inf" THEN x.n < y.n
            ELSE IF x.k = "inf" THEN x.n = -1
            ELSE IF y.k = "inf" THEN y.n = 1
            ELSE Sgn(x) < Sgn(y)
      [] x.k = y.k /\ x.k \in {"cln", "rln"} /\ x.c = y.c /\ x.e = y.e ->
            IF Sgn(x) # Sgn(y) THEN Sgn(x) < Sgn(y)
            ELSE LET above == x.n * y.d > y.n * x.d
                 IN  IF (x.k = "rln") = (x.c > 0) THEN above
                     ELSE ~above /\ (x.n # y.n \/ x.d # y.d)

---------------------------------------------------------------------------
(* The module functions raw_to_temperature and temperature_to_raw.         *)

PlanckKeys == {"B", "F", "O", "R1", "R2"}

\* planck["B"] ... planck["R2"] (lines 198-202) raise KeyError on a mapping
\* that lacks one of the five keys.
HasPlanckKeys(planck) == PlanckKeys \subseteq DOMAIN planck

\* Line 204, the argument of the logarithm: R1 / (R2*(S + O)) + F.
PlanckArg(s, planck) ==
    Add(Div(planck["R1"], Mul(planck["R2"], Add(s, planck["O"]))), planck["F"])

\* The sign slip "- F" for "+ F" in line 204.
raw_to_temperature_minusF(s, planck) ==
    Div(planck["B"],
        Log(Sub(Div(planck["R1"], Mul(planck["R2"], Add(s, planck["O"]))),
                planck["F"])))

\* Line 204 for one element: B / np.log(R1 / (R2*(S + O)) + F).
raw_to_temperature_elem(s, planck) ==
    Div(planck["B"], Log(PlanckArg(s, planck)))

\* raw_to_temperature on a matrix (a sequence of rows): element-wise.
raw_to_temperature(S, planck) ==
    [i \in DOMAIN S |->
        [j \in DOMAIN S[i] |-> raw_to_temperature_elem(S[i][j], planck)]]

\* The sign slip "+ O" for "- O" in line 226.
temperature_to_raw_plusO(t, planck) ==
    Add(Div(planck["R1"],
            Mul(planck["R2"], Sub(Exp(Div(planck["B"], t)), planck["F"]))),
        planck["O"])

\* Line 226 before the cast: R1 / (R2*(np.exp(B/T) - F)) - O.
temperature_to_raw_real(t, planck) ==
    Sub(Div(planck["R1"],
            Mul(planck["R2"], Sub(Exp(Div(planck["B"], t)), planck["F"]))),
        planck["O"])

UINT16_MAX == 65535

\* The float64 that the evaluation of an expression with exact value v
\* yields lies just below v (-1), on v (0) or just above v (1).
RoundingSides == {-1, 0, 1}

\* The integer part, toward zero, of the float64 on side r of the finite
\* value v.
TruncTowardZero(v, r) ==
    CASE v.k = "zero" -> 0
      [] v.k = "q" /\ v.d = 1 /\ r = -Sign(v.n) -> v.n - Sign(v.n)
      [] v.k = "q" /\ ~(v.d = 1 /\ r = -Sign(v.n)) ->
            Sign(v.n) * (Abs(v.n) \div v.d)

\* Rounding to the nearest integer (half up) where the cast truncates.
astype_uint16_nearest(v, r) ==
    IF v.k = "zero" THEN {0}
    ELSE IF v.k = "q"
         THEN LET t == (2 * v.n + v.d) \div (2 * v.d)
              IN  IF t \in 0..UINT16_MAX THEN {t} ELSE {0, UINT16_MAX}
         ELSE {0, UINT16_MAX}

\* .astype('uint16') of a float64 (line 226): the C conversion, which
\* truncates toward zero.  A nan, an infinity or a value whose integer part
\* does not fit is undefined behaviour in C; the builds in use give 0, the
\* saturated value or the integer part modulo 2^16.  The set of the
\* possible results.
astype_uint16(v, r) ==
    CASE v.k \in {"zero", "q"} ->
            LET t == TruncTowardZero(v, r)
            IN  IF t \in 0..UINT16_MAX THEN {t}
                ELSE {0, UINT16_MAX, t % (UINT16_MAX + 1)}
      [] v.k \in {"nan", "inf"} -> {0, UINT16_MAX}

\* temperature_to_raw for one element: the possible uint16 results.
temperature_to_raw_elem(t, planck, r) ==
    astype_uint16(temperature_to_raw_real(t, planck), r)

---------------------------------------------------------------------------
(* Matrices (sequences of rows) and the numpy reductions of lines 58-62.   *)

\* ndarray.size
Size(M) == IF Len(M) = 0 THEN 0 ELSE Len(M) * Len(M[1])

\* The elements in row-major order.
Flatten(M) ==
    IF Size(M) = 0 THEN <<>>
    ELSE [i \in 1..Size(M) |->
            M[((i - 1) \div Len(M[1])) + 1][((i - 1) % Len(M[1])) + 1]]

HasNaN(xs) == \E i \in DOMAIN xs : IsNaN(xs[i])

RECURSIVE SumSeq(_)
SumSeq(xs) ==
    IF Len(xs) = 1 THEN xs[1] ELSE Add(SumSeq(SubSeq(xs, 1, Len(xs) - 1)), xs[Len(xs)])

\* ndarray.min(): a nan propagates.
Min(xs) ==
    IF HasNaN(xs) THEN NaN
    ELSE xs[CHOOSE i \in DOMAIN xs :
                /\ \A j \in DOMAIN xs : ~Less(xs[j], xs[i])
                /\ \A j \in 1..(i - 1) : Less(xs[i], xs[j])]

\* ndarray.max(): a nan propagates.
Max(xs) ==
    IF HasNaN(xs) THEN NaN
    ELSE xs[CHOOSE i \in DOMAIN xs :
                /\ \A j \in DOMAIN xs : ~Less(xs[i], xs[j])
                /\ \A j \in 1..(i - 1) : Less(xs[j], xs[i])]

\* The mean taken over the rows only: the sum divided by len(temp).
Mean_by_rows(M) == Div(SumSeq(Flatten(M)), FromInt(Len(M)))

\* ndarray.mean(): the sum of the elements over their number.
Mean(M) == Div(SumSeq(Flatten(M)), FromInt(Size(M)))

\* ndarray.std(): sqrt(mean(abs(x - x.mean())**2)), the population form.
Std(M) ==
    LET xs == Flatten(M)
        m  == Mean(M)
        sq == [i \in DOMAIN xs |-> Square(Sub(xs[i], m))]
    IN  Sqrt(Div(SumSeq(sq), FromInt(Size(M))))

\* The k-th smallest element (k from 1) of a sequence without nan.
Kth(xs, k) ==
    xs[CHOOSE i \in DOMAIN xs :
          LET below == Cardinality({j \in DOMAIN xs : Less(xs[j], xs[i])})
              same  == Cardinality({j \in DOMAIN xs : ~Less(xs[j], xs[i])
                                                     /\ ~Less(xs[i], xs[j])})
          IN  below < k /\ k <= below + same]

\* numpy.median: nan if any element is, else the middle element of the
\* sorted elements or the mean of the two middle ones.
Median(M) ==
    LET xs == Flatten(M)
        n  == Len(xs)
    IN  IF HasNaN(xs) THEN NaN
        ELSE IF n % 2 = 1 THEN Kth(xs, (n + 1) \div 2)
        ELSE Div(Add(Kth(xs, n \div 2), Kth(xs, (n \div 2) + 1)), FromInt(2))

\* The float64 on side r of the exact value v.
Rounded(v, r) == [v |-> v, side |-> r]

\* The sides on which the float64 mean can fall.  One element, or two, sum
\* and divide exactly; from three on each addition may round.  A mean with
\* no closed form, a nan or an infinity has no side.
MeanSides(M) ==
    IF Size(M) <= 2 THEN {0}
    ELSE IF Mean(M).k \in {"real", "nan", "inf"} THEN {0}
    ELSE RoundingSides

\* ndarray.std() around a mean that fell on side r: where the exact
\* deviations are all zero, the computed ones are the rounding error of the
\* mean, and the result is a rounding-size positive value.
StdRounded(M, r) ==
    IF Std(M).k = "zero" /\ r # 0 THEN Rounded(Zero(1), 1)
    ELSE Rounded(Std(M), 0)

\* A reduction of a zero-size array that gives nan where min() raises.
T_stats_nan(temp, r) ==
    IF Size(temp) = 0
    THEN [raised |-> "",
          stats |-> [T_min |-> NaN, T_max |-> NaN, T_mean |-> Rounded(NaN, 0),
                     T_std |-> Rounded(NaN, 0), T_med |-> NaN]]
    ELSE [raised |-> "",
          stats |-> [T_min  |-> Min(Flatten(temp)),
                     T_max  |-> Max(Flatten(temp)),
                     T_mean |-> Rounded(Mean(temp), r),
                     T_std  |-> StdRounded(temp, r),
                     T_med  |-> Median(temp)]]

\* Lines 58-62: the dictionary of the five statistics, the float64 mean
\* falling on side r of the exact one.  temp.min(), the first evaluated,
\* raises ValueError on a zero-size array.
T_stats_of(temp, r) ==
    IF Size(temp) = 0
    THEN [raised |-> "ValueError", stats |-> <<>>]
    ELSE [raised |-> "",
          stats |-> [T_min  |-> Min(Flatten(temp)),
                     T_max  |-> Max(Flatten(temp)),
                     T_mean |-> Rounded(Mean(temp), r),
                     T_std  |-> StdRounded(temp, r),
                     T_med  |-> Median(temp)]]

---------------------------------------------------------------------------
(* The FLIR_image object: __init__ step by step, then save_data.           *)

\* The example of line 26.
ExamplePlanck ==
    [R1 |-> FromInt(385517), B |-> FromInt(1428), F |-> FromInt(1),
     O |-> FromInt(-72), R2 |-> FromInt(1)]

\* The object and the files around it.
VARIABLES pc, self, files, written, err

\* One application of the module functions to one sample.
VARIABLES fn, coeffs, S_in, T_out, pre, side, S_back

lvars == <<pc, self, files, written, err>>

cvars == <<fn, coeffs, S_in, T_out, pre, side, S_back>>

vars == <<fn, coeffs, S_in, T_out, pre, side, S_back, pc, self, files, written, err>>

\* The largest number of samples of a decoded matrix.
MaxPixels == 4

\* The name of the input file as its dot-separated parts.
Filename == <<"FLIR0001", "jpg">>

RECURSIVE Join(_)
\* ".".join(parts)
Join(parts) ==
    IF Len(parts) = 0 THEN ""
    ELSE IF Len(parts) = 1 THEN parts[1]
    ELSE Join(SubSeq(parts, 1, Len(parts) - 1)) \o "." \o parts[Len(parts)]

\* f"{self.filename}_temp" of lines 115, 123, 126 and 127.
TempFile == Join(Filename) \o "_temp"

PlanckTag(k) == "APP1:Planck" \o k

\* "planck" in key.lower(), line 101, for the tags exiftool reports.
IsPlanckTag(key) == \E k \in PlanckKeys : key = PlanckTag(k)

\* key[11:], line 102: what follows the 11 characters of "APP1:Planck".
Key11(key) == CHOOSE k \in PlanckKeys : key = PlanckTag(k)

\* str.lower() of the raw image types exiftool reports.
Lower(str) ==
    CASE str = "TIFF" -> "tiff"
      [] str = "PNG"  -> "png"
      [] str = "DAT"  -> "dat"
      [] str \in {"raw", "RAW"} -> "raw"
      [] str = "temperature" -> "temperature"

\* 'tif' in fmt, line 122
HasTif(fmt) == fmt \in {"tif", "tiff"}

\* Calibration values a file's metadata holds.
FilePlanck ==
    [R1 |-> FromInt(6), B |-> FromInt(2), F |-> FromInt(1),
     O |-> FromInt(-1), R2 |-> FromInt(1)]

\* What exiftool can report of a file: any subset of the five Planck tags,
\* the raw image type or none, and the image size.
MetadataInputs ==
    {[t \in {PlanckTag(k) : k \in present} \cup types
              \cup {"File:ImageWidth", "File:ImageHeight"} |->
         IF t = "APP1:RawThermalImageType" THEN type
         ELSE IF t = "File:ImageWidth" THEN 640
         ELSE IF t = "File:ImageHeight" THEN 480
         ELSE FilePlanck[Key11(t)]] :
       present \in SUBSET PlanckKeys,
       types \in {{}, {"APP1:RawThermalImageType"}},
       type \in {"TIFF", "PNG", "DAT"}}

RawSamples == {2, 3}

\* The matrices a decoder can return: any shape within the bounds, zero
\* area included.
IntMatrices ==
    UNION {[1..shape[1] -> [1..shape[2] -> RawSamples]] :
              shape \in {sh \in (0..MaxPixels) \X (0..MaxPixels) :
                            sh[1] * sh[2] <= MaxPixels}}

\* tifffile.imread: the samples as stored.
TiffMatrix(M) == [i \in DOMAIN M |-> [j \in DOMAIN M[i] |-> FromInt(M[i][j])]]

\* matplotlib's imread of a PNG: floats scaled to [0, 1].
PngMatrix(M) ==
    [i \in DOMAIN M |-> [j \in DOMAIN M[i] |-> Q(M[i][j], UINT16_MAX)]]

NoWrite == [fname |-> "", dtype |-> "", data |-> <<>>]

NoErr == [type |-> "", at |-> ""]

Raise(type, at) == [type |-> type, at |-> at]

\* An object with attribute a set to v.
SetAttr(obj, a, v) ==
    [x \in DOMAIN obj \cup {a} |-> IF x = a THEN v ELSE obj[x]]

HasAttr(obj, a) == a \in DOMAIN obj

Init ==
    /\ pc = "new"
    /\ self = [a \in {} |-> 0]
    /\ files = {}
    /\ written = NoWrite
    /\ err = NoErr
    /\ fn = "idle"
    /\ coeffs = ExamplePlanck
    /\ S_in = FromInt(0)
    /\ T_out = NaN
    /\ pre = NaN
    /\ side = 0
    /\ S_back = 0

\* Lines 48-49 and 75-79: the file name, then the metadata exiftool
\* reports, or its failure.
get_metadata ==
    /\ pc = "new"
    /\ \/ \E md \in MetadataInputs :
            /\ self' = SetAttr(SetAttr(self, "filename", Filename), "metadata", md)
            /\ pc' = "metadata"
            /\ err' = err
       \/ /\ self' = SetAttr(self, "filename", Filename)
          /\ pc' = "failed"
          /\ err' = Raise("ExifToolError", "get_metadata")
    /\ UNCHANGED <<files, written>>
    /\ UNCHANGED cvars

\* Lines 50-52 and 82-95: the three GPS tags are set to None in the
\* metadata, then copied into position; outtype is None; thermalim is kept.
get_position ==
    /\ pc = "metadata"
    /\ \E thermalim \in BOOLEAN :
         LET gps == {"EXIF:GPSLatitude", "EXIF:GPSLongitude", "EXIF:GPSAltitude"}
             md  == [t \in DOMAIN self.metadata \cup gps |->
                        IF t \in gps THEN "None" ELSE self.metadata[t]]
             pos == [latitude |-> md["EXIF:GPSLatitude"],
                     longitude |-> md["EXIF:GPSLongitude"],
                     altitude |-> md["EXIF:GPSAltitude"]]
         IN  self' = SetAttr(SetAttr(SetAttr(SetAttr(self, "metadata", md),
                        "position", pos), "outtype", "None"),
                        "thermalim", thermalim)
    /\ pc' = "position"
    /\ UNCHANGED <<files, written, err>>
    /\ UNCHANGED cvars

\* Lines 53-54: a thermal image reads the raw image type (KeyError when the
\* tag is absent); any other goes on to line 68.
read_raw_fmt ==
    /\ pc = "position"
    /\ IF ~self.thermalim
       THEN /\ pc' = "configured"
            /\ UNCHANGED <<self, err>>
       ELSE IF "APP1:RawThermalImageType" \in DOMAIN self.metadata
       THEN /\ self' = SetAttr(self, "raw_fmt",
                               Lower(self.metadata["APP1:RawThermalImageType"]))
            /\ pc' = "raw_fmt"
            /\ err' = err
       ELSE /\ pc' = "failed"
            /\ err' = Raise("KeyError", "raw_fmt")
            /\ self' = self
    /\ UNCHANGED <<files, written>>
    /\ UNCHANGED cvars

\* Lines 98-103: the Planck tags of the metadata, keyed by what follows
\* "APP1:Planck".  Nothing is checked.
planck_of(metadata) ==
    LET tags == {t \in DOMAIN metadata : IsPlanckTag(t)}
    IN  [k \in {Key11(t) : t \in tags} |-> metadata[PlanckTag(k)]]

\* Line 55
get_planck_coeffs ==
    /\ pc = "raw_fmt"
    /\ self' = SetAttr(self, "planck", planck_of(self.metadata))
    /\ pc' = "planck"
    /\ UNCHANGED <<files, written, err>>
    /\ UNCHANGED cvars

\* Lines 56 and 106-128: extract_raw_image.  The shell command creates the
\* temporary file; the decoder for the format reads it, or raises; the
\* file is removed only when line 127 is reached; return self.raw raises
\* AttributeError when no decoder assigned it.
extract_raw_image ==
    /\ pc = "planck"
    /\ LET fmt == Lower(self.metadata["APP1:RawThermalImageType"])
       IN  \/ /\ HasTif(fmt) \/ fmt = "png"
              /\ \E M \in IntMatrices :
                   self' = SetAttr(self, "raw",
                              IF HasTif(fmt) THEN TiffMatrix(M) ELSE PngMatrix(M))
              /\ files' = (files \cup {TempFile}) \ {TempFile}
              /\ pc' = "raw"
              /\ err' = err
           \/ /\ HasTif(fmt) \/ fmt = "png"
              /\ files' = files \cup {TempFile}
              /\ pc' = "failed"
              /\ err' = Raise("DecodeError", "extract_raw_image")
              /\ self' = self
           \/ /\ ~HasTif(fmt) /\ fmt # "png"
              /\ files' = (files \cup {TempFile}) \ {TempFile}
              /\ IF HasAttr(self, "raw")
                 THEN pc' = "raw" /\ err' = err
                 ELSE pc' = "failed"
                      /\ err' = Raise("AttributeError", "extract_raw_image")
              /\ self' = self
    /\ UNCHANGED written
    /\ UNCHANGED cvars

\* Line 57: self.temp = raw_to_temperature(self.raw, self.planck); the
\* function raises KeyError on a coefficient the mapping lacks.
convert ==
    /\ pc = "raw"
    /\ IF HasPlanckKeys(self.planck)
       THEN /\ self' = SetAttr(self, "temp",
                               raw_to_temperature(self.raw, self.planck))
            /\ pc' = "temp"
            /\ err' = err
       ELSE /\ pc' = "failed"
            /\ err' = Raise("KeyError", "raw_to_temperature")
            /\ self' = self
    /\ UNCHANGED <<files, written>>
    /\ UNCHANGED cvars

\* Lines 58-62
compute_T_stats ==
    /\ pc = "temp"
    /\ \E r \in (IF Size(self.temp) = 0 THEN {0} ELSE MeanSides(self.temp)) :
         LET st == T_stats_of(self.temp, r)
         IN  IF st.raised = ""
             THEN /\ self' = SetAttr(self, "T_stats", st.stats)
                  /\ pc' = "T_stats"
                  /\ err' = err
             ELSE /\ pc' = "failed"
                  /\ err' = Raise(st.raised, "T_stats")
                  /\ self' = self
    /\ UNCHANGED <<files, written>>
    /\ UNCHANGED cvars

\* Lines 63-66: the output configuration of a thermal image.
configure ==
    /\ pc = "T_stats"
    /\ \E outtype \in {"raw", "RAW", "temperature"}, bitdepth \in {16, 32, 64} :
         self' = SetAttr(SetAttr(SetAttr(SetAttr(self, "e", FromInt(1)),
                    "tau", FromInt(1)), "outtype", outtype), "bitdepth", bitdepth)
    /\ pc' = "configured"
    /\ UNCHANGED <<files, written, err>>
    /\ UNCHANGED cvars

\* Lines 68-72
finish ==
    /\ pc = "configured"
    /\ \E includeexif \in BOOLEAN, removeoriginal \in BOOLEAN :
         LET w == self.metadata["File:ImageWidth"]
             h == self.metadata["File:ImageHeight"]
         IN  self' = SetAttr(SetAttr(SetAttr(SetAttr(SetAttr(self,
                        "width", w), "height", h), "shape", <<h, w>>),
                        "includeexif", includeexif),
                        "removeoriginal", removeoriginal)
    /\ pc' = "done"
    /\ UNCHANGED <<files, written, err>>
    /\ UNCHANGED cvars

\* ndarray.astype('uint16') of the raw matrix (line 156), whose elements are
\* in range: a new array.
astype_uint16_matrix(M) ==
    [i \in DOMAIN M |->
        [j \in DOMAIN M[i] |->
            FromInt(CHOOSE t \in astype_uint16(M[i][j], 0) : TRUE)]]

\* Lines 165-167: the sample type written.
datatype_of(bitdepth) == IF bitdepth = 16 THEN "uint16" ELSE "float16"

\* Bits per sample of a numpy type.
DTypeBits(dtype) ==
    CASE dtype = "uint16"  -> 16
      [] dtype = "float16" -> 16
      [] dtype = "float32" -> 32
      [] dtype = "float64" -> 64

\* Lines 154-160: the matrix selected and the output name.
data_of(obj) ==
    IF Lower(obj.outtype) = "raw" THEN astype_uint16_matrix(obj.raw) ELSE obj.temp

out_fname_of(obj, filename) ==
    IF filename # "None" THEN filename
    ELSE Join(SubSeq(obj.filename, 1, Len(obj.filename) - 1))
            \o (IF Lower(obj.outtype) = "raw" THEN "" ELSE "_T")
            \o "." \o obj.raw_fmt

\* The cast of line 156 written back to the object.
save_data_attrs_inplace(obj, data) == [obj EXCEPT !["raw"] = data]

\* What save_data leaves of the object: lines 131-182 assign no attribute;
\* data is a local, and astype returns a new array.
save_data_attrs(obj, data) == obj

\* Lines 131-182: save_data(filename).
save_data ==
    /\ pc = "done"
    /\ \E filename \in {"None", "custom.tif"} :
         IF ~self.thermalim
         THEN /\ err' = Raise("AttributeError", "save_data")
              /\ UNCHANGED <<self, files, written>>
         ELSE LET data  == data_of(self)
                  out   == out_fname_of(self, filename)
                  orig  == out \o "_original"
                  wrote == [fname |-> out,
                            dtype |-> datatype_of(self.bitdepth),
                            data |-> data]
              IN  /\ self' = save_data_attrs(self, data)
                  /\ \/ /\ err' = Raise("EncodeError", "save_data")
                        /\ UNCHANGED <<files, written>>
                     \/ \E exif_ok \in BOOLEAN :
                          LET fs == files \cup {out} \cup
                                    (IF self.includeexif /\ exif_ok
                                     THEN {orig} ELSE {})
                          IN  /\ written' = wrote
                              /\ IF ~self.removeoriginal
                                 THEN files' = fs /\ err' = NoErr
                                 ELSE IF orig \in fs
                                 THEN files' = fs \ {orig} /\ err' = NoErr
                                 ELSE files' = fs
                                      /\ err' = Raise("FileNotFoundError",
                                                      "save_data")
    /\ pc' = pc
    /\ UNCHANGED cvars

Next ==
    \/ get_metadata
    \/ get_position
    \/ read_raw_fmt
    \/ get_planck_coeffs
    \/ extract_raw_image
    \/ convert
    \/ compute_T_stats
    \/ configure
    \/ finish
    \/ save_data

Spec == Init /\ [][Next]_vars

---------------------------------------------------------------------------
(* Claims about the object, checked under Spec.                            *)

Thermal == HasAttr(self, "thermalim") /\ self.thermalim

\* The metadata read lacks at least one of the five Planck tags.
MetadataLacksCoefficient ==
    /\ HasAttr(self, "metadata")
    /\ \E k \in PlanckKeys : PlanckTag(k) \notin DOMAIN self.metadata

\* C1: a thermal image whose metadata lacks one of R1, R2, B, F, O never
\* loads, and no raw matrix, temperature matrix or T_stats is ever assigned
\* to the object.
C1_Original ==
    (Thermal /\ MetadataLacksCoefficient)
        => /\ pc # "done"
           /\ ~HasAttr(self, "raw")
           /\ ~HasAttr(self, "temp")
           /\ ~HasAttr(self, "T_stats")

\* C2: loading is linear and no step is taken out of order: coefficients
\* after the metadata, the raw decode only with all five coefficients
\* present, the forward model only after the decode, the statistics only
\* from the temperature matrix; after a failure no later step has run.
C2_Original ==
    /\ HasAttr(self, "planck") => HasAttr(self, "metadata")
    /\ HasAttr(self, "raw")
          => HasAttr(self, "planck") /\ HasPlanckKeys(self.planck)
    /\ (pc = "failed" /\ err.at = "extract_raw_image")
          => HasPlanckKeys(self.planck)
    /\ HasAttr(self, "temp") => HasAttr(self, "raw")
    /\ HasAttr(self, "T_stats")
          => /\ HasAttr(self, "temp")
             /\ Size(self.temp) > 0
             /\ self.T_stats.T_min = Min(Flatten(self.temp))
             /\ self.T_stats.T_max = Max(Flatten(self.temp))
    /\ (pc = "failed" /\ err.at = "get_metadata") => ~HasAttr(self, "metadata")
    /\ (pc = "failed" /\ err.at = "raw_fmt") => ~HasAttr(self, "planck")
    /\ (pc = "failed" /\ err.at = "extract_raw_image") => ~HasAttr(self, "raw")
    /\ (pc = "failed" /\ err.at = "raw_to_temperature") => ~HasAttr(self, "temp")
    /\ (pc = "failed" /\ err.at = "T_stats") => ~HasAttr(self, "T_stats")
    /\ pc = "failed" => written = NoWrite /\ ~HasAttr(self, "bitdepth")

\* extract_raw_image has returned or raised.
ExtractEnded ==
    \/ HasAttr(self, "raw")
    \/ pc = "failed" /\ err.at = "extract_raw_image"

\* C5: whenever extract_raw_image has returned or raised, the temporary
\* file '<filename>_temp' no longer exists.
C5_Original == ExtractEnded => TempFile \notin files

\* C6: save_data on a loaded thermal image leaves the object as it was
\* (coefficients, raw and temperature matrices, T_stats, output
\* configuration), whether the call succeeds or fails.
C6_SaveKeepsObject == [][(pc = "done" /\ Thermal) => self' = self]_vars

\* C6's case: a save of a thermal image that wrote the file and then raised.
C6_Witness ==
    /\ pc = "done"
    /\ Thermal
    /\ written # NoWrite
    /\ err = Raise("FileNotFoundError", "save_data")

\* Every element of the matrix is v.
ConstantMatrix(M, v) == \A i \in DOMAIN M : \A j \in DOMAIN M[i] : M[i][j] = v

\* The temperature matrix is constant, of a finite value, and has its
\* statistics.
ConstantTemp ==
    /\ HasAttr(self, "T_stats")
    /\ IsFinite(self.temp[1][1])
    /\ ConstantMatrix(self.temp, self.temp[1][1])

\* C7 as stated: over a non-empty temperature matrix whose elements all
\* equal v, T_min = T_max = T_mean = T_med = v and T_std = 0.
C7_Original ==
    ConstantTemp
        => /\ self.T_stats.T_min = self.temp[1][1]
           /\ self.T_stats.T_max = self.temp[1][1]
           /\ self.T_stats.T_mean = Rounded(self.temp[1][1], 0)
           /\ self.T_stats.T_med = self.temp[1][1]
           /\ self.T_stats.T_std = Rounded(Zero(1), 0)

\* C7 amended: over a non-empty temperature matrix whose elements all equal
\* v, T_min = T_max = T_med = v; T_mean is v and T_std is 0 for one or two
\* elements, and from three elements on up to the float64 rounding of the
\* sum: T_mean is v or a float64 next to it, T_std is 0 or a positive value
\* of the size of that rounding.
C7_ConstantMatrix ==
    ConstantTemp
        => /\ self.T_stats.T_min = self.temp[1][1]
           /\ self.T_stats.T_max = self.temp[1][1]
           /\ self.T_stats.T_med = self.temp[1][1]
           /\ self.T_stats.T_mean.v = self.temp[1][1]
           /\ self.T_stats.T_std.v = Zero(1)
           /\ self.T_stats.T_std.side \in {0, 1}
           /\ self.T_stats.T_std.side = 0 <=> self.T_stats.T_mean.side = 0
           /\ Size(self.temp) <= 2 => self.T_stats.T_mean.side = 0

\* C7's case: a constant 2 by 2 matrix of 2 / ln(7) whose mean fell just
\* above 2 / ln(7).
C7_Witness ==
    /\ HasAttr(self, "T_stats")
    /\ Len(self.temp) = 2
    /\ Len(self.temp[1]) = 2
    /\ ConstantMatrix(self.temp, RLn(2, 1, 7, 1))
    /\ self.T_stats.T_min = RLn(2, 1, 7, 1)
    /\ self.T_stats.T_mean = Rounded(RLn(2, 1, 7, 1), 1)
    /\ self.T_stats.T_std = Rounded(Zero(1), 1)

\* C8: the statistics of a zero-area temperature matrix are an error:
\* construction fails there and no T_stats is assigned.
C8_EmptyMatrix ==
    (HasAttr(self, "temp") /\ Size(self.temp) = 0)
        => /\ ~HasAttr(self, "T_stats")
           /\ pc \in {"temp", "failed"}
           /\ pc = "failed" => err = Raise("ValueError", "T_stats")

\* C8's case: a zero-area temperature matrix, and the failure at the
\* statistics.
C8_Witness ==
    /\ pc = "failed"
    /\ err = Raise("ValueError", "T_stats")
    /\ HasAttr(self, "temp")
    /\ Size(self.temp) = 0
    /\ ~HasAttr(self, "T_stats")

\* C10: save_data writes the matrix the output kind selects (raw for 'raw',
\* the temperatures otherwise) with bitdepth bits per sample, for bitdepth
\* 16, 32 and 64.
C10_Original ==
    (pc = "done" /\ written # NoWrite)
        => /\ written.data =
                IF self.outtype \in {"raw", "RAW"}
                THEN astype_uint16_matrix(self.raw) ELSE self.temp
           /\ DTypeBits(written.dtype) = self.bitdepth

---------------------------------------------------------------------------
(* The two functions applied to one sample: the inputs are drawn from      *)
(* bounded sets, the actions apply the functions.                          *)

MaxR1 == 3
MaxR2 == 2
MaxB == 1
MaxF == 2
MaxO == 1
MaxS == 2
MaxArg == 3

CoeffInputs ==
    [R1 : {FromInt(i) : i \in 0..MaxR1} \cup {ExamplePlanck.R1},
     R2 : {FromInt(i) : i \in -1..MaxR2},
     B  : {FromInt(i) : i \in -1..MaxB} \cup {ExamplePlanck.B},
     F  : {FromInt(i) : i \in -1..MaxF} \cup {Q(1, 2)},
     O  : {FromInt(i) : i \in -MaxO..1} \cup {ExamplePlanck.O}]

SampleInputs == {FromInt(i) : i \in (0..MaxS) \cup {72, 73, 8192, UINT16_MAX}}

\* Temperatures B / ln(a) for a rational a > 0.
TemperatureInputs(planck) ==
    {Div(planck.B, Log(Q(a, b))) : a \in 1..MaxArg, b \in 1..2}

ConvInit ==
    /\ coeffs \in CoeffInputs
    /\ \/ /\ fn = "raw"
          /\ S_in \in SampleInputs
          /\ T_out = NaN
       \/ /\ fn = "given"
          /\ S_in = FromInt(0)
          /\ T_out \in TemperatureInputs(coeffs)
    /\ pre = NaN
    /\ side = 0
    /\ S_back = 0
    /\ pc = "idle"
    /\ self = [a \in {} |-> 0]
    /\ files = {}
    /\ written = NoWrite
    /\ err = NoErr

\* T = raw_to_temperature(S, planck)
RawToTemperature ==
    /\ fn = "raw"
    /\ T_out' = raw_to_temperature_elem(S_in, coeffs)
    /\ fn' = "temperature"
    /\ UNCHANGED <<coeffs, S_in, pre, side, S_back>>
    /\ UNCHANGED lvars

\* S = temperature_to_raw(T, planck), on the result of raw_to_temperature
\* (the round trip) or on a given temperature.
TemperatureToRaw ==
    /\ fn \in {"temperature", "given"}
    /\ \E r \in RoundingSides :
         \E out \in temperature_to_raw_elem(T_out, coeffs, r) :
            /\ pre' = temperature_to_raw_real(T_out, coeffs)
            /\ side' = r
            /\ S_back' = out
    /\ fn' = IF fn = "temperature" THEN "roundtrip" ELSE "quantized"
    /\ UNCHANGED <<coeffs, S_in, T_out>>
    /\ UNCHANGED lvars

ConvNext ==
    \/ RawToTemperature
    \/ TemperatureToRaw

SpecConv == ConvInit /\ [][ConvNext]_vars

---------------------------------------------------------------------------
(* Claims about the two functions, checked under SpecConv.                 *)

\* The expression R1/(R2*(S+O)) + F of the claims' preconditions.
ClaimArg == Add(Div(coeffs.R1, Mul(coeffs.R2, Add(S_in, coeffs.O))), coeffs.F)

\* The precondition of C3 as stated: R2 # 0 and R1/(R2*(S+O)) + F > 0, the
\* expression having a value (S + O # 0).
ClaimDomain ==
    /\ Sgn(coeffs.R2) # 0
    /\ Sgn(Add(S_in, coeffs.O)) # 0
    /\ IsFinite(ClaimArg)
    /\ Sgn(ClaimArg) = 1

\* The integer a sample holds.
IntOf(s) == IF s.k = "zero" THEN 0 ELSE s.n

\* C3 as stated: for R2 # 0 and every S with R1/(R2*(S+O)) + F > 0,
\* raw_to_temperature(S, coeffs) is finite and strictly positive.
C3_Original ==
    (fn = "temperature" /\ ClaimDomain)
        => (IsFinite(T_out) /\ Sgn(T_out) = 1)

\* C3 amended: for R2 # 0 and every S with R1/(R2*(S+O)) + F > 0 and # 1,
\* and B nonzero with the sign of R1/(R2*(S+O)) + F - 1 (B > 0 and an
\* argument above 1 for a camera), raw_to_temperature(S, coeffs) is finite
\* and strictly positive.
C3_PositiveTemperature ==
    (/\ fn = "temperature"
     /\ ClaimDomain
     /\ Sgn(coeffs.B) * Sgn(Sub(ClaimArg, FromInt(1))) = 1)
        => (IsFinite(T_out) /\ Sgn(T_out) = 1)

\* C3's case: 8192 under the example coefficients gives 1428 / ln(393637/8120).
C3_Witness ==
    /\ fn = "temperature"
    /\ coeffs = ExamplePlanck
    /\ S_in = FromInt(8192)
    /\ ClaimDomain
    /\ T_out = RLn(1428, 1, 393637, 8120)
    /\ Sgn(T_out) = 1

\* C4 as stated: for every S in the valid domain and coefficients c,
\* temperature_to_raw(raw_to_temperature(S, c), c) equals S within 1 count.
C4_Original ==
    (fn = "roundtrip" /\ ClaimDomain)
        => (S_back - IntOf(S_in) \in -1..1)

\* C4 amended: for every S in the valid domain and coefficients c with
\* R1 # 0 and B # 0, the float64 evaluation being off the exact value by
\* less than one count, temperature_to_raw(raw_to_temperature(S, c), c)
\* equals S within 1 count.
C4_RoundTrip ==
    (/\ fn = "roundtrip"
     /\ ClaimDomain
     /\ Sgn(coeffs.R1) # 0
     /\ Sgn(coeffs.B) # 0)
        => (S_back - IntOf(S_in) \in -1..1)

\* C4's case: the round trip of 8192 under the example coefficients lands on 8191 when
\* the float64 result lies just below 8192.
C4_Witness ==
    /\ fn = "roundtrip"
    /\ coeffs = ExamplePlanck
    /\ S_in = FromInt(8192)
    /\ ClaimDomain
    /\ pre = FromInt(8192)
    /\ side = -1
    /\ S_back = 8191

\* The float64 before the cast lies in [0, 65535].
PreInUint16Range ==
    /\ pre.k \in {"zero", "q"}
    /\ \/ Sgn(pre) = 1
       \/ pre.k = "zero" /\ side # -1
    /\ \/ pre.n < UINT16_MAX * pre.d
       \/ pre.n = UINT16_MAX /\ pre.d = 1 /\ side # 1

\* floor of the float64 before the cast.
FloorOfPre ==
    IF pre.k = "zero" THEN 0
    ELSE IF pre.d = 1 /\ side = -1 THEN pre.n - 1
    ELSE pre.n \div pre.d

\* C9: temperature_to_raw quantizes by truncating toward zero: a value x in
\* [0, 65535] gives floor(x), never the nearest integer, and every result
\* lies in 0..65535.
C9_Truncates ==
    fn \in {"roundtrip", "quantized"}
        => /\ S_back \in 0..UINT16_MAX
           /\ PreInUint16Range => S_back = FloorOfPre

\* C9's case: a value of 5/2 before the cast is quantized to 2.
C9_Witness ==
    /\ fn = "quantized"
    /\ pre = Q(5, 2)
    /\ PreInUint16Range
    /\ S_back = 2

=============================================================================
